---- MODULE Spec2Model ----
(***************************************************************************)
(* State-machine model of linea-bot (src/bot.js): the transaction queue    *)
(* (TxQueue), the transfer worker (transferWithRetry), the per-token       *)
(* processing locks, the contract (re-)setup, the balance poller and the   *)
(* multi-endpoint provider pool (MultiRpcProvider).                        *)
(*                                                                         *)
(* JavaScript runs one callback at a time; an async function is suspended  *)
(* only at an await.  Every action below is one such uninterrupted span:   *)
(* from the arrival of an event, a timer or a network answer up to the     *)
(* next await of a network call or a delay.  Network answers, error        *)
(* messages and the chain's pending count are inputs, chosen with \E.      *)
(*                                                                         *)
(* Six specifications share the variables:                                 *)
(*   Spec          watcher, queue, worker, contract re-setup, lock sweep;  *)
(*                 the pool's 'providerChanged' and 'reconnected' events   *)
(*                 may arrive at any time;                                 *)
(*   SpecCore      watcher, queue and worker only, with the history of     *)
(*                 the accepted nonces;                                    *)
(*   SpecLive      SpecCore with fair scheduling of the awaits and polls;  *)
(*   SpecOverlap   the watcher with two setupContracts runs in flight;      *)
(*   SpecPool      the pool's measurement rounds, selection, reconnects;   *)
(*   SpecFallback  concurrent calls of callWithFallback.                   *)
(***************************************************************************)
EXTENDS Integers, Sequences, FiniteSets, TLC

\* ------------------------------------------------------------------ bounds

\* Number of jobs ever appended to the queue in one behaviour.
MaxJobs == 3
\* Largest pending transaction count the chain reports.
MaxPending == 1
\* Cap of the nonce counter (the code's counter is unbounded).
MaxNonce == 3
\* The chain's gas price estimate (held constant within a behaviour).
GasEstimate == 100
\* Cap of metrics.processingLockResets (unbounded in the code).
MaxLockResets == 1
\* Cap of the live Transfer subscriptions per token.
MaxListeners == 2
\* Cap of the pending reconnect timers per endpoint.
MaxTimers == 1
\* Cap of the endpoints whose reconnects are failing at the same time.
MaxFailing == 1

\* ------------------------------------------------------- program constants

\* JavaScript null / undefined (txQueue.nonce = null, let gasPrice;).
NULL == -1
\* const maxRetries = 5
maxRetries == 5
\* this.maxReconnectAttempts = 5
maxReconnectAttempts == 5

\* tokens.json: the configured token list, in file order.
tokens == << [address |-> "0xAA", symbol |-> "AAA"],
             [address |-> "0xBb", symbol |-> "BBB"] >>

\* String.prototype.toLowerCase on the configured addresses.
toLowerCase(a) ==
  CASE a = "0xAA" -> "0xaa"
    [] a = "0xBb" -> "0xbb"
    [] OTHER -> a

\* The keys of tokenContracts / tokenProcessing.
Addrs == { toLowerCase(tokens[i].address) : i \in 1..Len(tokens) }

\* Indexes of this.providers (one per entry of WS_RPC_URLS).
Providers == {0, 1, 2}
\* this.providers.length - 1
LastProvider == Cardinality(Providers) - 1

\* Values of Date.now() - start a measurement can record, in milliseconds.
Latencies == {45, 120, 200}
\* Infinity: greater than every number.
Infinity == 1 + CHOOSE l \in Latencies : \A m \in Latencies : m <= l

\* measureLatencies runs that may be in flight at once.
Rounds == {1}
\* Concurrent callers of callWithFallback.
Callers == {"worker", "poller"}
\* What an endpoint can answer to a call.
Values == {"a", "b"}

\* Activations of TxQueue.process that may exist at once.
Procs == {1, 2}
\* Concurrent setupContracts runs.
SetupRuns == {1}

\* The slots when the handlers of two notifications may run setupContracts
\* at once.
OverlappingRuns == {1, 2}

ErrKinds == {"nonce too low", "replacement transaction underpriced",
             "insufficient funds", "generic"}

VARIABLES
  queue,            \* txQueue.queue: sequence of jobs [tokenAddress, id]
  processing,       \* txQueue.processing
  txNonce,          \* txQueue.nonce (NULL or a number)
  tokenProcessing,  \* tokenProcessing: address -> lock (absent = FALSE)
  tokenContracts,   \* tokenContracts: address -> has an entry
  listeners,        \* live 'Transfer' subscriptions per address
  setupRuns,        \* setupContracts runs in flight
  proc,             \* the activations of TxQueue.process and their worker run
  metrics,          \* metrics
  nextId,           \* history: number the next enqueued job gets
  finished,         \* history: ids of the jobs whose run has ended
  expectedNonce     \* history, kept by SpecCore only: the nonce the next
                    \* accepted submission is to carry: the last accepted
                    \* one + 1, or the count a "nonce too low" resync has
                    \* read since (NULL: none yet, NoHistory: not kept)

VARIABLES
  latencies,         \* multiProvider.latencies
  currentIndex,      \* multiProvider.currentIndex
  reconnectAttempts, \* multiProvider.reconnectAttempts
  timers,            \* pending setTimeout(reconnectProvider) per endpoint
  rounds,            \* the measureLatencies runs and what awaits them
  selected,          \* history: what the last selectBestProvider call did,
                     \* kept until the next measureLatencies starts
  calls              \* the callWithFallback calls: loop index, history of
                     \* the endpoints called so far, and outcome

botVars == << queue, processing, txNonce, tokenProcessing, tokenContracts,
              listeners, setupRuns, proc, metrics, nextId, finished,
              expectedNonce >>

poolVars == << latencies, currentIndex, reconnectAttempts, timers, rounds,
               selected >>

vars == << botVars, poolVars, calls >>

\* expectedNonce where the history is not kept.
NoHistory == NULL - 1

\* The new value of expectedNonce.
Expect(n) == IF expectedNonce = NoHistory THEN NoHistory ELSE n

\* ---------------------------------------------------------------- metrics

NoMetrics == [totalTransactions |-> 0, successfulTx |-> 0, failedTx |-> 0,
              consecutiveFailures |-> 0, processingLockResets |-> 0]

updateMetrics(m, type, success) ==
  CASE type = "transaction" /\ success ->
         [m EXCEPT !.totalTransactions = @ + 1, !.successfulTx = @ + 1,
                   !.consecutiveFailures = 0]
    [] type = "transaction" /\ ~success ->
         [m EXCEPT !.totalTransactions = @ + 1, !.failedTx = @ + 1,
                   !.consecutiveFailures = @ + 1]
    [] type = "lock_reset" ->
         [m EXCEPT !.processingLockResets = @ + 1]
    [] OTHER -> m

\* ------------------------------------------------------ worker: pure parts

\* ToNumber of a nonce: null counts as 0 in nonce++ and in the encoded tx.
Num(n) == IF n = NULL THEN 0 ELSE n

\* if (!txQueue.nonce): null and 0 are both falsy.
NonceFalsy(n) == n = NULL \/ n = 0

\* gasPrice.mul(120).div(100) on a fresh estimate.
freshGas(g) == (g * 120) \div 100

\* gasPrice.mul(110).div(100) in the catch block.
bumpGas(g) == (g * 110) \div 100

\* A catch block that keeps the nonce.
keepNonce(n) == Num(n)

\* nonce++ in the catch block.
bumpNonce(n) == Num(n) + 1

\* An else-if chain without the "insufficient funds" branch.
classifyRetryAll(kind) ==
  IF kind = "nonce too low" THEN "resync"
  ELSE IF kind = "replacement transaction underpriced" THEN "underpriced"
  ELSE "generic"

\* The else-if chain on err.message in the catch block.
classify(kind) ==
  IF kind = "nonce too low" THEN "resync"
  ELSE IF kind = "replacement transaction underpriced" THEN "underpriced"
  ELSE IF kind = "insufficient funds" THEN "fatal"
  ELSE "generic"

\* A loop that gives up at the first failure.
throwOnFirstFailure(i, ok) == IF ok THEN "return" ELSE "throw"

\* One iteration of callWithFallback's loop at index i: the call's result is
\* returned, or its error is thrown at the last index, or the next is tried.
callWithFallbackStep(i, ok) ==
  IF ok THEN "return"
  ELSE IF i = LastProvider THEN "throw"
  ELSE "next"

\* The network calls of a run that go through the current provider first and
\* through callWithFallback on error.
Stages == {"balance", "gas", "estimate", "send"}

\* Error messages a failing call of a stage can carry.
StageErrors(stage) ==
  IF stage \in {"estimate", "send"} THEN ErrKinds ELSE {"generic"}

IdleProc ==
  [pc |-> "idle", tok |-> "none", id |-> 0, via |-> "none",
   nonce |-> NULL, nonce0 |-> NULL, attempt |-> 0, gasPrice |-> NULL,
   txNonce |-> NULL, txGas |-> NULL, fb |-> FALSE, generic |-> TRUE,
   fatal |-> "none", exit |-> "none", result |-> "none",
   balance |-> "none"]


\* ------------------------------------------------------ ends of a worker step

\* A finally clause that leaves the lock as it is.
noRelease(addr) == tokenProcessing

\* finally { tokenProcessing.set(addr, false); }
finally(addr) == [tokenProcessing EXCEPT ![addr] = FALSE]

\* The run goes on to its next await (via, how the run was started, is kept
\* until then only).
Goto(p, r) ==
  /\ proc' = [proc EXCEPT ![p] = [r EXCEPT !.via = "none"]]
  /\ UNCHANGED << tokenProcessing, finished >>

\* What is left of a run once it has ended: its locals are gone; the job, the
\* number of attempts made, the call that failed with "insufficient funds",
\* the balance read, the exit path and the returned value are kept.
Ended(r, pc, exit, result) ==
  [IdleProc EXCEPT !.pc = pc, !.tok = r.tok, !.id = r.id, !.via = r.via,
                   !.attempt = r.attempt, !.fatal = r.fatal,
                   !.exit = exit, !.result = result, !.balance = r.balance]

\* A return that rejects the promise of transferWithRetry instead.
ReturnRejects(p, r, exit, result) ==
  /\ proc' = [proc EXCEPT ![p] = Ended(r, "crashed", "threw", "none")]
  /\ tokenProcessing' = finally(r.tok)
  /\ finished' = finished \cup {r.id}

\* return inside the try block: the finally clause runs, and the drain loop
\* that awaits the run is resumed later ("resume").
Return(p, r, exit, result) ==
  /\ proc' = [proc EXCEPT ![p] = Ended(r, "resume", exit, result)]
  /\ tokenProcessing' = finally(r.tok)
  /\ finished' = finished \cup {r.id}

\* An exception leaves the try block: the finally clause runs, the promise of
\* transferWithRetry rejects, and so does the promise of process(), whose
\* loop has no handler: the loop is gone and nothing resets txQueue.processing.
Throw(p, r) ==
  /\ proc' = [proc EXCEPT ![p] = Ended(r, "crashed", "threw", "none")]
  /\ tokenProcessing' = finally(r.tok)
  /\ finished' = finished \cup {r.id}

\* ---------------------------------------------------------------- TxQueue

\* transferWithRetry up to its first await: the lock check, the lock, the
\* contract lookup, and the call of contract.balanceOf.
transferStart(p, job, via) ==
  LET addr == toLowerCase(job.tokenAddress)
      r == [IdleProc EXCEPT !.tok = addr, !.id = job.id, !.via = via]
  IN IF tokenProcessing[addr]
     THEN /\ proc' = [proc EXCEPT ![p] = Ended(r, "resume", "skipped", "undefined")]
          /\ finished' = finished \cup {job.id}
          /\ UNCHANGED tokenProcessing
     ELSE IF ~tokenContracts[addr]
     THEN Return(p, r, "noContract", "undefined")
     ELSE /\ proc' = [proc EXCEPT ![p] = [r EXCEPT !.pc = "balance"]]
          /\ tokenProcessing' = [tokenProcessing EXCEPT ![addr] = TRUE]
          /\ UNCHANGED finished

\* this.queue.pop(): the last job instead of the first.
pop(q) == [job |-> q[Len(q)], rest |-> SubSeq(q, 1, Len(q) - 1)]

\* this.queue.shift()
shift(q) == [job |-> Head(q), rest |-> Tail(q)]

\* The while loop of process() from its condition on; flag is the value
\* txQueue.processing has when the loop is (re-)entered.
DrainLoop(p, q, flag, via) ==
  IF Len(q) > 0
  THEN /\ queue' = shift(q).rest
       /\ processing' = flag
       /\ transferStart(p, shift(q).job, via)
  ELSE /\ queue' = q
       /\ processing' = FALSE
       /\ proc' = [proc EXCEPT ![p] = IdleProc]
       /\ UNCHANGED << tokenProcessing, finished >>

\* process() from its call to the first await.
process(p, q) == DrainLoop(p, q, TRUE, "enqueue")

\* A queue that starts a drain loop on every enqueue.
alwaysStartProcess == TRUE

\* if (!this.processing)
mayStartProcess == ~processing

FreeProcs == { p \in Procs : proc[p].pc = "idle" }

\* TxQueue.enqueue(job)
enqueue(job) ==
  LET q == Append(queue, job) IN
  IF mayStartProcess /\ FreeProcs # {}
  THEN process(CHOOSE p \in FreeProcs : \A o \in FreeProcs : p <= o, q)
  ELSE /\ queue' = q
       /\ UNCHANGED << processing, proc, tokenProcessing, finished >>

\* enqueueTransfer(tokenAddress)
enqueueTransfer(tokenAddress) ==
  LET addr == toLowerCase(tokenAddress) IN
  IF tokenProcessing[addr]
  THEN UNCHANGED << queue, processing, proc, tokenProcessing, finished, nextId >>
  ELSE /\ nextId <= MaxJobs
       /\ enqueue([tokenAddress |-> addr, id |-> nextId])
       /\ nextId' = nextId + 1

\* The drain loop resumes after `await transferWithRetry(...)`.
ProcessResume(p) ==
  /\ proc[p].pc = "resume"
  /\ DrainLoop(p, queue, processing, "drain")
  /\ UNCHANGED << txNonce, tokenContracts, listeners, setupRuns, metrics, nextId, expectedNonce >>
  /\ UNCHANGED << poolVars, calls >>

\* ------------------------------------------------------ transferWithRetry

\* let nonce = txQueue.nonce; ... while (attempt < maxRetries) { attempt++;
\* up to the await of getGasPrice.
beginLoop(r, n) ==
  [r EXCEPT !.nonce = n, !.nonce0 = n, !.attempt = 1, !.pc = "gas", !.fb = FALSE]

\* The tail of the catch block: gas bump, nonce++, txQueue.nonce = nonce, and
\* the call of delay.  gasPrice is still undefined when no gas price was ever
\* read: gasPrice.mul then throws a TypeError out of the catch block.
catchTail(p, r) ==
  IF r.gasPrice = NULL
  THEN Throw(p, r) /\ UNCHANGED txNonce
  ELSE /\ Num(r.nonce) < MaxNonce
       /\ Goto(p, [r EXCEPT !.gasPrice = bumpGas(@), !.nonce = bumpNonce(@),
                            !.pc = "delay"])
       /\ txNonce' = bumpNonce(r.nonce)

\* catch (err) up to its next await (generic: every error of the run so far
\* was a generic one; fatal: the call whose error said "insufficient funds").
catch(p, r, kind) ==
  LET r1 == [r EXCEPT !.fb = FALSE, !.txNonce = NULL, !.txGas = NULL,
                      !.generic = @ /\ kind = "generic",
                      !.fatal = IF kind = "insufficient funds" THEN r.pc ELSE @]
  IN CASE classify(kind) = "resync" ->
            Goto(p, [r1 EXCEPT !.pc = "resync"]) /\ UNCHANGED txNonce
       [] classify(kind) = "underpriced" ->
            IF r1.gasPrice = NULL
            THEN Throw(p, r1) /\ UNCHANGED txNonce
            ELSE catchTail(p, [r1 EXCEPT !.gasPrice = bumpGas(@)])
       [] classify(kind) = "fatal" ->
            /\ Goto(p, [r1 EXCEPT !.pc = "notifyInsufficient"])
            /\ UNCHANGED txNonce
       [] OTHER -> catchTail(p, r1)

\* What a stage's call can answer.
Answers(stage) == IF stage = "balance" THEN {"positive", "zero"} ELSE {"ok"}

\* A balance check that lets every balance through.
neverEmpty(out) == FALSE

\* currentBalance.lte(0)
lte0(out) == out = "zero"

\* The answer of a stage's call arrived: the code up to the next await.
stageDone(p, r, out) ==
  CASE r.pc = "balance" ->
         /\ LET rb == [r EXCEPT !.balance = out] IN
            IF lte0(out)
            THEN Return(p, rb, "zeroBalance", "undefined")
            ELSE IF NonceFalsy(txNonce)
            THEN Goto(p, [rb EXCEPT !.pc = "initNonce", !.fb = FALSE])
            ELSE Goto(p, beginLoop(rb, txNonce))
         /\ UNCHANGED expectedNonce
    [] r.pc = "gas" ->
         /\ Goto(p, [r EXCEPT !.gasPrice = freshGas(GasEstimate),
                              !.pc = "estimate", !.fb = FALSE])
         /\ UNCHANGED expectedNonce
    [] r.pc = "estimate" ->
         \* populateTransaction, the unsignedTx fields, signTransaction and
         \* the call of sendTransaction
         /\ Goto(p, [r EXCEPT !.txNonce = Num(r.nonce), !.txGas = r.gasPrice,
                              !.pc = "send", !.fb = FALSE])
         /\ UNCHANGED expectedNonce
    [] r.pc = "send" ->
         /\ Goto(p, [r EXCEPT !.pc = "wait", !.fb = FALSE])
         /\ expectedNonce' = Expect(r.txNonce + 1)

\* A stage's call failed on the last endpoint of callWithFallback: the balance
\* read is outside the retry loop's try block, the others are caught.
stageFailed(p, r, kind) ==
  IF r.pc = "balance"
  THEN Throw(p, r) /\ UNCHANGED txNonce
  ELSE catch(p, r, kind)

\* The call through the current provider answers or fails; on failure the
\* run calls multiProvider.callWithFallback and awaits it.
CallCurrent(p) ==
  LET r == proc[p] IN
  /\ r.pc \in Stages /\ ~r.fb
  /\ \E out \in Answers(r.pc) \cup {"error"} :
       IF out = "error"
       THEN Goto(p, [r EXCEPT !.fb = TRUE]) /\ UNCHANGED expectedNonce
       ELSE stageDone(p, r, out)
  /\ UNCHANGED << queue, processing, txNonce, tokenContracts, listeners,
                  setupRuns, metrics, nextId >>
  /\ UNCHANGED << poolVars, calls >>

\* `await multiProvider.callWithFallback(...)` settles: with the answer of the
\* first endpoint that answered, or with the error of the last endpoint when
\* all have failed (the loop itself is FallbackAnswer below).
CallWithFallback(p) ==
  LET r == proc[p] IN
  /\ r.pc \in Stages /\ r.fb
  /\ \E out \in Answers(r.pc) \cup {"error"}, kind \in StageErrors(r.pc) :
       IF out = "error"
       THEN stageFailed(p, r, kind) /\ UNCHANGED expectedNonce
       ELSE stageDone(p, r, out) /\ UNCHANGED txNonce
  /\ UNCHANGED << queue, processing, tokenContracts, listeners, setupRuns,
                  metrics, nextId >>
  /\ UNCHANGED << poolVars, calls >>

\* await txQueue.initNonce(): getTransactionCount('pending') answers or fails.
InitNonce(p) ==
  LET r == proc[p] IN
  /\ r.pc = "initNonce"
  /\ \E out \in (0..MaxPending) \cup {NULL} :
       IF out = NULL
       THEN Throw(p, r) /\ UNCHANGED txNonce
       ELSE Goto(p, [r EXCEPT !.pc = "nonceReady"]) /\ txNonce' = out
  /\ UNCHANGED << queue, processing, tokenContracts, listeners, setupRuns,
                  metrics, nextId, expectedNonce >>
  /\ UNCHANGED << poolVars, calls >>

\* The run resumes after initNonce and enters the retry loop.
NonceReady(p) ==
  LET r == proc[p] IN
  /\ r.pc = "nonceReady"
  /\ Goto(p, beginLoop(r, txNonce))
  /\ UNCHANGED << queue, processing, txNonce, tokenContracts, listeners,
                  setupRuns, metrics, nextId, expectedNonce >>
  /\ UNCHANGED << poolVars, calls >>

\* await txResponse.wait(1): confirmed, or failed.
Wait(p) ==
  LET r == proc[p] IN
  /\ r.pc = "wait"
  /\ \E ok \in BOOLEAN :
       IF ok
       THEN /\ Num(r.nonce) < MaxNonce
            /\ Goto(p, [r EXCEPT !.nonce = Num(@) + 1, !.pc = "notifySuccess"])
            /\ txNonce' = Num(r.nonce) + 1
            /\ metrics' = updateMetrics(metrics, "transaction", TRUE)
       ELSE /\ catch(p, r, "generic")
            /\ UNCHANGED metrics
  /\ UNCHANGED << queue, processing, tokenContracts, listeners, setupRuns,
                  nextId, expectedNonce >>
  /\ UNCHANGED << poolVars, calls >>

\* "nonce too low": getTransactionCount('pending') answers or fails.
Resync(p) ==
  LET r == proc[p] IN
  /\ r.pc = "resync"
  /\ \E out \in (0..MaxPending) \cup {NULL} :
       IF out = NULL
       THEN Throw(p, r) /\ UNCHANGED << txNonce, expectedNonce >>
       ELSE /\ catchTail(p, [r EXCEPT !.nonce = out])
            /\ expectedNonce' = Expect(out)
  /\ UNCHANGED << queue, processing, tokenContracts, listeners, setupRuns,
                  metrics, nextId >>
  /\ UNCHANGED << poolVars, calls >>

\* A loop that never gives up.
alwaysRetry(attempt) == TRUE

\* while (attempt < maxRetries)
mayRetry(attempt) == attempt < maxRetries

\* await delay(2 ** attempt * 1000) is over: the next attempt, or the code
\* after the loop up to its first telegramNotify.
Delay(p) ==
  LET r == proc[p]
      m == updateMetrics(metrics, "transaction", FALSE)
  IN
  /\ r.pc = "delay"
  /\ IF mayRetry(r.attempt)
     THEN /\ Goto(p, [r EXCEPT !.attempt = @ + 1, !.pc = "gas"])
          /\ UNCHANGED metrics
     ELSE /\ Goto(p, [r EXCEPT !.pc = IF m.consecutiveFailures >= 5
                                      THEN "notifyAlert" ELSE "notifyExhausted"])
          /\ metrics' = m
  /\ UNCHANGED << queue, processing, txNonce, tokenContracts, listeners,
                  setupRuns, nextId, expectedNonce >>
  /\ UNCHANGED << poolVars, calls >>

NotifyPcs == {"notifySuccess", "notifyInsufficient", "notifyAlert", "notifyExhausted"}

\* await telegramNotify(...) is over (it never throws).
NotifyDone(p) ==
  LET r == proc[p] IN
  /\ r.pc \in NotifyPcs
  /\ CASE r.pc = "notifySuccess" ->
            Return(p, r, "success", "true") /\ UNCHANGED metrics
       [] r.pc = "notifyInsufficient" ->
            /\ metrics' = updateMetrics(metrics, "transaction", FALSE)
            /\ Return(p, r, "insufficient", "false")
       [] r.pc = "notifyAlert" ->
            Goto(p, [r EXCEPT !.pc = "notifyExhausted"]) /\ UNCHANGED metrics
       [] OTHER ->
            Return(p, r, "exhausted", "false") /\ UNCHANGED metrics
  /\ UNCHANGED << queue, processing, txNonce, tokenContracts, listeners,
                  setupRuns, nextId, expectedNonce >>
  /\ UNCHANGED << poolVars, calls >>


\* ------------------------------------------------- contracts and lock sweep

SetupIdle == "idle"

\* cleanupContracts(): removeAllListeners on every contract of the map, then
\* both maps are cleared (a cleared lock reads as false).
cleanupContracts ==
  /\ listeners' = [a \in Addrs |-> IF tokenContracts[a] THEN listeners[a] - 1
                                   ELSE listeners[a]]
  /\ tokenContracts' = [a \in Addrs |-> FALSE]
  /\ tokenProcessing' = [a \in Addrs |-> FALSE]

\* A run is started in the lowest free slot.
FreeSetup(s) ==
  /\ setupRuns[s] = SetupIdle
  /\ \A o \in DOMAIN setupRuns : o < s => setupRuns[o] # SetupIdle

\* multiProvider.on('providerChanged'): the new wallet, and setupContracts up
\* to the end of `await cleanupContracts()`.
ProviderChanged(s) ==
  /\ FreeSetup(s)
  /\ cleanupContracts
  /\ setupRuns' = [setupRuns EXCEPT ![s] = "providerChanged:cleaned"]
  /\ UNCHANGED << queue, processing, txNonce, proc, metrics, nextId,
                  finished, expectedNonce >>
  /\ UNCHANGED << poolVars, calls >>

\* multiProvider.on('reconnected'): setupContracts up to the same await.
Reconnected(s) ==
  /\ FreeSetup(s)
  /\ cleanupContracts
  /\ setupRuns' = [setupRuns EXCEPT ![s] = "reconnected:cleaned"]
  /\ UNCHANGED << queue, processing, txNonce, proc, metrics, nextId,
                  finished, expectedNonce >>
  /\ UNCHANGED << poolVars, calls >>

\* setupContracts after `await cleanupContracts()` (CHAIN_ID is cached since
\* startup): for every token a new contract in the map, the lock set to
\* false, and a 'Transfer' subscription on the new contract.
SetupBuild(s) ==
  /\ setupRuns[s] \in {"providerChanged:cleaned", "reconnected:cleaned"}
  /\ \A a \in Addrs : listeners[a] < MaxListeners
  /\ tokenContracts' = [a \in Addrs |-> TRUE]
  /\ tokenProcessing' = [a \in Addrs |-> FALSE]
  /\ listeners' = [a \in Addrs |-> listeners[a] + 1]
  /\ setupRuns' = [setupRuns EXCEPT ![s] =
                     IF @ = "providerChanged:cleaned"
                     THEN "providerChanged:built" ELSE SetupIdle]
  /\ UNCHANGED << queue, processing, txNonce, proc, metrics, nextId,
                  finished, expectedNonce >>
  /\ UNCHANGED << poolVars, calls >>

\* The 'providerChanged' handler after `await setupContracts()`.
ProviderChangedDone(s) ==
  /\ setupRuns[s] = "providerChanged:built"
  /\ txNonce' = NULL
  /\ setupRuns' = [setupRuns EXCEPT ![s] = SetupIdle]
  /\ UNCHANGED << queue, processing, tokenProcessing, tokenContracts, listeners,
                  proc, metrics, nextId, finished, expectedNonce >>
  /\ UNCHANGED << poolVars, calls >>

\* The loop of resetProcessingLocks(): the number of locks it finds set.
resetCount(locks) == Cardinality({ a \in Addrs : locks[a] })

\* A sweep that reports whatever it found.
alwaysReports(n) == TRUE

\* if (resetCount > 0)
sweepReports(n) == n > 0

\* resetProcessingLocks(): the 5-minute timer and GET /reset-locks.
ResetProcessingLocks ==
  /\ tokenProcessing' = [a \in Addrs |-> IF tokenProcessing[a] THEN FALSE
                                         ELSE tokenProcessing[a]]
  /\ IF sweepReports(resetCount(tokenProcessing))
     THEN /\ metrics.processingLockResets < MaxLockResets
          /\ metrics' = updateMetrics(metrics, "lock_reset", TRUE)
     ELSE UNCHANGED metrics
  /\ UNCHANGED << queue, processing, txNonce, tokenContracts, listeners,
                  setupRuns, proc, nextId, finished, expectedNonce >>
  /\ UNCHANGED << poolVars, calls >>

\* ---------------------------------------------------------------- watcher

\* contract.on('Transfer', ...) with `to` the wallet: one subscription's
\* callback runs.
TransferEvent(i) ==
  /\ listeners[toLowerCase(tokens[i].address)] > 0
  /\ enqueueTransfer(tokens[i].address)
  /\ UNCHANGED << txNonce, tokenContracts, listeners, setupRuns, metrics, expectedNonce >>
  /\ UNCHANGED << poolVars, calls >>

\* pollingBalances, run every second for ever: the balance read of token i,
\* issued while the token had a contract in the map, answers with a positive
\* balance (any other answer, and a read that fails on every endpoint,
\* changes nothing).
PollBalance(i) ==
  /\ enqueueTransfer(tokens[i].address)
  /\ UNCHANGED << txNonce, tokenContracts, listeners, setupRuns, metrics,
                  expectedNonce >>
  /\ UNCHANGED << poolVars, calls >>

\* --------------------------------------------------------- MultiRpcProvider

\* Math.max(...this.latencies)
maxLatency(lat) == CHOOSE l \in { lat[i] : i \in Providers } :
                     \A i \in Providers : lat[i] <= l

\* Math.min(...this.latencies)
minLatency(lat) == CHOOSE l \in { lat[i] : i \in Providers } :
                     \A i \in Providers : l <= lat[i]

\* Array.prototype.indexOf: the first index holding x.
indexOf(lat, x) == CHOOSE i \in Providers :
                     lat[i] = x /\ \A j \in Providers : lat[j] = x => i <= j

\* A selection of the first endpoint with the greatest latency.
selectWorstProvider(lat, cur) ==
  CHOOSE i \in Providers :
    /\ \A j \in Providers : lat[j] <= lat[i]
    /\ \A j \in Providers : lat[j] = lat[i] => i <= j

\* A selection without the all-unavailable return.
selectWithoutGuard(lat, cur) == indexOf(lat, minLatency(lat))

\* selectBestProvider(): the new value of currentIndex.
selectBestProvider(lat, cur) ==
  IF minLatency(lat) = Infinity THEN cur ELSE indexOf(lat, minLatency(lat))

\* selectBestProvider(): whether 'providerChanged' is emitted.
emitsProviderChanged(lat) == minLatency(lat) # Infinity

\* No selectBestProvider call since the last measureLatencies started.
NotSelected == [closed |-> NULL, wasCurrent |-> FALSE, emitted |-> FALSE]

\* The endpoints other than index whose reconnects are failing.
Failing(st, index) ==
  { j \in Providers \ {index} : st.reconnectAttempts[j] > 0 \/ st.timers[j] > 0 }

\* Whether one more failing reconnect of index stays within the bounds.
MayFail(st, index) ==
  /\ st.timers[index] < MaxTimers
  /\ Cardinality(Failing(st, index)) < MaxFailing

\* A reconnectProvider without the maxReconnectAttempts return.
reconnectWithoutCap(st, index, throws) ==
  IF throws
  THEN [reconnectAttempts |-> [st.reconnectAttempts EXCEPT ![index] = @ + 1],
        timers |-> [st.timers EXCEPT ![index] = @ + 1]]
  ELSE [st EXCEPT !.reconnectAttempts[index] = 0]

\* reconnectProvider(index) on st = [reconnectAttempts, timers]; throws tells
\* whether the new WebSocketProvider or its listeners threw.
reconnectProvider(st, index, throws) ==
  IF st.reconnectAttempts[index] >= maxReconnectAttempts THEN st
  ELSE IF throws
  THEN [reconnectAttempts |-> [st.reconnectAttempts EXCEPT ![index] = @ + 1],
        timers |-> [st.timers EXCEPT ![index] = @ + 1]]
  ELSE [st EXCEPT !.reconnectAttempts[index] = 0]

IdleRound == [pc |-> "idle", pending |-> {}, reconnect |-> NULL]

\* measureLatencies(): measureLatency(i) is called for every endpoint, each up
\* to its `await p.getBlockNumber()`; reconnect is the endpoint the awaiting
\* handler reconnects afterwards (NULL: none).
measureLatencies(rd, reconnect) ==
  /\ rounds[rd].pc = "idle"
  /\ \A o \in Rounds : o < rd => rounds[o].pc # "idle"
  /\ rounds' = [rounds EXCEPT ![rd] = [pc |-> "measuring", pending |-> Providers,
                                       reconnect |-> reconnect]]
  /\ selected' = NotSelected
  /\ UNCHANGED << latencies, currentIndex, reconnectAttempts, timers >>

\* The timer of startHealthCheck fires.
HealthCheck(rd) ==
  /\ measureLatencies(rd, NULL)
  /\ UNCHANGED << botVars, calls >>

\* p._websocket.on('close') of endpoint index.
WsClose(rd, index) ==
  /\ measureLatencies(rd, index)
  /\ UNCHANGED << botVars, calls >>

\* p._websocket.on('error') of endpoint index (it differs from the health
\* check by metrics.rpcFailures, which the model does not keep).
WsError(rd, index) ==
  /\ measureLatencies(rd, NULL)
  /\ UNCHANGED << botVars, calls >>

\* measureLatency(index) after its await: the latency is recorded, or Infinity
\* and a reconnect.  With the last answer of the round Promise.all resolves,
\* and the awaiting code runs on: selectBestProvider(), and after a 'close'
\* reconnectProvider(index).
measureLatency(rd, index, out, throws1, throws2) ==
  LET r == rounds[rd]
      st0 == [reconnectAttempts |-> reconnectAttempts, timers |-> timers]
      lat == [latencies EXCEPT ![index] = out]
      st1 == IF out = Infinity THEN reconnectProvider(st0, index, throws1)
             ELSE [st0 EXCEPT !.reconnectAttempts[index] = 0]
      last == r.pending = {index}
      st2 == IF last /\ r.reconnect # NULL
             THEN reconnectProvider(st1, r.reconnect, throws2) ELSE st1
  IN
  /\ r.pc = "measuring" /\ index \in r.pending
  /\ throws1 => out = Infinity /\ MayFail(st0, index)
  /\ throws2 => last /\ r.reconnect # NULL /\ MayFail(st1, r.reconnect)
  /\ latencies' = lat
  /\ currentIndex' = IF last THEN selectBestProvider(lat, currentIndex)
                     ELSE currentIndex
  /\ reconnectAttempts' = st2.reconnectAttempts
  /\ timers' = st2.timers
  /\ rounds' = [rounds EXCEPT ![rd] =
                  IF last THEN IdleRound ELSE [r EXCEPT !.pending = @ \ {index}]]
  /\ selected' = IF last
                 THEN [closed |-> r.reconnect,
                       wasCurrent |-> r.reconnect = currentIndex,
                       emitted |-> emitsProviderChanged(lat)]
                 ELSE selected

\* p.getBlockNumber() of endpoint index answers after out milliseconds, or
\* fails (Infinity).
Measured(rd, index) ==
  /\ \E out \in Latencies \cup {Infinity}, throws1 \in BOOLEAN, throws2 \in BOOLEAN :
       measureLatency(rd, index, out, throws1, throws2)
  /\ UNCHANGED << botVars, calls >>

\* setTimeout(() => this.reconnectProvider(index), ...) fires.
ReconnectTimer(index) ==
  LET st0 == [reconnectAttempts |-> reconnectAttempts,
              timers |-> [timers EXCEPT ![index] = @ - 1]]
  IN
  /\ timers[index] > 0
  /\ \E throws \in BOOLEAN :
       LET st1 == reconnectProvider(st0, index, throws) IN
       /\ throws => MayFail(st0, index)
       /\ reconnectAttempts' = st1.reconnectAttempts
       /\ timers' = st1.timers
  /\ UNCHANGED << latencies, currentIndex, rounds, selected >>
  /\ UNCHANGED << botVars, calls >>

\* ---------------------------------------------------------- callWithFallback

IdleCall == [i |-> NULL, called |-> << >>, result |-> [kind |-> "none"]]

\* callWithFallback(fn) up to its first await: i = 0, fn(this.providers[0]).
callWithFallback(c) ==
  /\ calls[c].i = NULL
  /\ calls' = [calls EXCEPT ![c] = [IdleCall EXCEPT !.i = 0]]
  /\ UNCHANGED << botVars, poolVars >>

\* `await fn(this.providers[i])` settles with value or with an error.
FallbackAnswer(c) ==
  LET k == calls[c] IN
  /\ k.i # NULL
  /\ \E ok \in BOOLEAN, value \in Values :
       LET called == Append(k.called, [index |-> k.i, ok |-> ok])
           step == callWithFallbackStep(k.i, ok)
       IN calls' = [calls EXCEPT ![c] =
            CASE step = "return" ->
                   [i |-> NULL, called |-> called,
                    result |-> [kind |-> "returned", from |-> k.i, value |-> value]]
              [] step = "throw" ->
                   [i |-> NULL, called |-> called,
                    result |-> [kind |-> "thrown", from |-> k.i]]
              [] OTHER ->
                   [k EXCEPT !.i = @ + 1, !.called = called]]
  /\ UNCHANGED << botVars, poolVars >>

\* ------------------------------------------------------------ specification

\* The state once startup is over: contracts set up, nonce initialised,
\* polling about to start.
InitBot(runs) ==
  /\ queue = << >>
  /\ processing = FALSE
  /\ txNonce \in 0..MaxPending
  /\ tokenProcessing = [a \in Addrs |-> FALSE]
  /\ tokenContracts = [a \in Addrs |-> TRUE]
  /\ listeners = [a \in Addrs |-> 1]
  /\ setupRuns = [s \in runs |-> SetupIdle]
  /\ proc = [p \in Procs |-> IdleProc]
  /\ metrics = NoMetrics
  /\ nextId = 1
  /\ finished = {}

\* The bot with one setupContracts run at a time.
InitProgram == InitBot(SetupRuns)

\* The pool once its constructor has returned: init() is suspended in its
\* first measureLatencies, no call of callWithFallback is in flight.
InitPool ==
  /\ latencies = [i \in Providers |-> Infinity]
  /\ currentIndex = 0
  /\ reconnectAttempts = [i \in Providers |-> 0]
  /\ timers = [i \in Providers |-> 0]
  /\ rounds = [rd \in Rounds |-> IF rd = 1
                  THEN [pc |-> "measuring", pending |-> Providers, reconnect |-> NULL]
                  ELSE IdleRound]
  /\ selected = NotSelected
  /\ calls = [c \in Callers |-> IdleCall]

Init == InitProgram /\ InitPool /\ expectedNonce = NoHistory

InitCore == InitProgram /\ InitPool /\ expectedNonce = NULL

\* Watcher, sequencer and worker.
NextCore ==
  \/ \E i \in 1..Len(tokens) : TransferEvent(i)
  \/ \E i \in 1..Len(tokens) : PollBalance(i)
  \/ \E p \in Procs : ProcessResume(p)
  \/ \E p \in Procs : CallCurrent(p)
  \/ \E p \in Procs : CallWithFallback(p)
  \/ \E p \in Procs : InitNonce(p)
  \/ \E p \in Procs : NonceReady(p)
  \/ \E p \in Procs : Wait(p)
  \/ \E p \in Procs : Resync(p)
  \/ \E p \in Procs : Delay(p)
  \/ \E p \in Procs : NotifyDone(p)

\* Contract re-setup on pool notifications, and the lock sweep.
NextSetup ==
  \/ \E s \in SetupRuns : ProviderChanged(s)
  \/ \E s \in SetupRuns : Reconnected(s)
  \/ \E s \in SetupRuns : SetupBuild(s)
  \/ \E s \in SetupRuns : ProviderChangedDone(s)
  \/ ResetProcessingLocks

Next == NextCore \/ NextSetup

\* The endpoint pool: health checks, socket events, reconnects.
NextPool ==
  \/ \E rd \in Rounds : HealthCheck(rd)
  \/ \E rd \in Rounds, index \in Providers : WsClose(rd, index)
  \/ \E rd \in Rounds, index \in Providers : WsError(rd, index)
  \/ \E rd \in Rounds, index \in Providers : Measured(rd, index)
  \/ \E index \in Providers : ReconnectTimer(index)

\* Calls of callWithFallback.
NextFallback ==
  \/ \E c \in Callers : callWithFallback(c)
  \/ \E c \in Callers : FallbackAnswer(c)

Spec == Init /\ [][Next]_vars

SpecCore == InitCore /\ [][NextCore]_vars

\* Every await of the drain loop and of the worker returns: a step of the
\* running activation.
WorkerStep ==
  \E p \in Procs :
    \/ ProcessResume(p) \/ CallCurrent(p) \/ CallWithFallback(p)
    \/ InitNonce(p) \/ NonceReady(p) \/ Wait(p) \/ Resync(p)
    \/ Delay(p) \/ NotifyDone(p)

\* The poll loop runs for ever.
PollStep == \E i \in 1..Len(tokens) : PollBalance(i)

\* SpecCore without the nonce history, with the awaits returning and the
\* poll loop scheduled fairly.
SpecLive ==
  Init /\ [][NextCore]_vars /\ WF_vars(WorkerStep) /\ WF_vars(PollStep)

\* The watcher with overlapping setupContracts runs.
InitOverlap == InitBot(OverlappingRuns) /\ InitPool /\ expectedNonce = NoHistory

\* Contract re-setup with a second run started while the first is suspended.
NextSetupOverlap ==
  \/ \E s \in OverlappingRuns : ProviderChanged(s)
  \/ \E s \in OverlappingRuns : Reconnected(s)
  \/ \E s \in OverlappingRuns : SetupBuild(s)
  \/ \E s \in OverlappingRuns : ProviderChangedDone(s)

\* The subscriptions and the runs that rebuild them.
NextOverlap ==
  \/ \E i \in 1..Len(tokens) : TransferEvent(i)
  \/ NextSetupOverlap

SpecOverlap == InitOverlap /\ [][NextOverlap]_vars

SpecPool == Init /\ [][NextPool]_vars

SpecFallback == Init /\ [][NextFallback]_vars

\* ------------------------------------------------------------------ claims

\* The positions of an activation inside a transferWithRetry run.
RunPcs == Stages \cup NotifyPcs \cup {"initNonce", "nonceReady", "wait", "resync", "delay"}

\* The activations of TxQueue.process that have started and not ended.
Running == { p \in Procs : proc[p].pc \in RunPcs \cup {"resume"} }

\* C1: at most one TxQueue.process is running at any time, hence at most one
\* transferWithRetry run is active and at most one submission is in flight,
\* whatever enqueue calls arrive while the drain loop runs.
C1_OneDrainLoop ==
  /\ Cardinality(Running) <= 1
  /\ Cardinality({ p \in Procs : proc[p].pc \in RunPcs }) <= 1
  /\ Cardinality({ p \in Procs : proc[p].pc \in {"send", "wait"} }) <= 1

\* C1 case: jobs were enqueued while a run is awaiting its submission.
C1_Witness ==
  \E p \in Procs : proc[p].pc = "send" /\ Len(queue) > 0 /\ processing

\* C2: jobs are started in the order of their enqueue (ids count the enqueue
\* calls): when the run of job b has started, every job enqueued before b has
\* started and finished, and every job still queued was enqueued after b; the
\* queue holds the waiting jobs in enqueue order.
C2_FifoOrder ==
  /\ \A p \in Procs : proc[p].id # 0 =>
       /\ \A a \in 1..(proc[p].id - 1) : a \in finished
       /\ \A k \in 1..Len(queue) : queue[k].id > proc[p].id
  /\ \A k \in 1..Len(queue) : queue[k].id \notin finished
  /\ \A k \in 1..(Len(queue) - 1) : queue[k].id < queue[k + 1].id

\* C2 case: job 2, enqueued while the loop was suspended in job 1, has been
\* started by the resumed loop after job 1 finished, job 3 waiting behind it.
C2_Witness ==
  \E p \in Procs :
    /\ proc[p].pc = "balance" /\ proc[p].via = "drain" /\ proc[p].id = 2
    /\ 1 \in finished
    /\ Len(queue) = 1 /\ queue[1].id = 3

\* C3: every accepted submission carries the nonce of the accepted submission
\* before it plus one, or the pending count read by a "nonce too low" resync
\* since then.
C3_NonceSequence ==
  [][\A p \in Procs :
       proc[p].pc = "send" /\ proc'[p].pc = "wait" /\ expectedNonce # NULL
         => proc[p].txNonce = expectedNonce]_vars

\* The exit paths of a run that has taken the lock.
ExitPaths == {"zeroBalance", "noContract", "success", "insufficient",
              "exhausted", "threw"}

\* C4: once a transferWithRetry run has ended, by whatever exit path, the
\* lock of its asset is false.
C4_LockReleased ==
  \A p \in Procs :
    proc[p].pc \in {"resume", "crashed"} /\ proc[p].exit \in ExitPaths
      => ~tokenProcessing[proc[p].tok]

\* C4 case: a run has ended with an exception thrown in the middle of an attempt.
C4_Witness ==
  \E p \in Procs :
    /\ proc[p].pc = "crashed" /\ proc[p].exit = "threw" /\ proc[p].attempt > 0
    /\ ~tokenProcessing[proc[p].tok]

\* C5: enqueueTransfer appends nothing for an asset that has a job waiting or
\* running: the queue never holds two jobs of one asset, nor a job of the
\* asset whose run is active.
C5_NoDuplicateJob ==
  /\ \A j, k \in 1..Len(queue) :
       j # k => queue[j].tokenAddress # queue[k].tokenAddress
  /\ \A p \in Procs, k \in 1..Len(queue) :
       proc[p].pc \in RunPcs => queue[k].tokenAddress # proc[p].tok

\* The selection is up to date: no measurement round is in flight.
Selected == \A rd \in Rounds : rounds[rd].pc = "idle"

\* C6: when some endpoint has a finite latency, selectBestProvider has set
\* currentIndex to an endpoint of minimal latency, never to one recorded as
\* Infinity; latencies [120, 45, 200] give currentIndex = 1.
C6_SelectsMinLatency ==
  Selected /\ (\E i \in Providers : latencies[i] # Infinity) =>
    /\ latencies[currentIndex] # Infinity
    /\ \A j \in Providers : latencies[currentIndex] <= latencies[j]
    /\ (latencies[0] = 120 /\ latencies[1] = 45 /\ latencies[2] = 200
          => currentIndex = 1)

\* C6 case: the latencies [120, 45, 200] have been measured and selected from.
C6_Witness ==
  /\ Selected
  /\ latencies[0] = 120 /\ latencies[1] = 45 /\ latencies[2] = 200
  /\ currentIndex = 1

\* C7: callWithFallback calls the endpoints in index order from 0, calls none
\* after the first that succeeds and returns that one's result, and throws
\* only when the call has failed on every endpoint.
C7_FallbackOrder ==
  \A c \in Callers :
    LET k == calls[c]
        n == Len(k.called)
    IN
    /\ \A j \in 1..n : k.called[j].index = j - 1
    /\ \A j \in 1..(n - 1) : ~k.called[j].ok
    /\ k.i # NULL => k.i = n /\ \A j \in 1..n : ~k.called[j].ok
    /\ k.result.kind = "returned" =>
         n > 0 /\ k.called[n].ok /\ k.result.from = k.called[n].index
    /\ k.result.kind = "thrown" =>
         /\ { k.called[j].index : j \in 1..n } = Providers
         /\ \A j \in 1..n : ~k.called[j].ok

\* C7 case: the call failed on endpoint 0 and was answered by endpoint 1.
C7_Witness ==
  \E c \in Callers :
    /\ calls[c].result.kind = "returned" /\ calls[c].result.from = 1
    /\ Len(calls[c].called) = 2

RECURSIVE escalated(_, _)
\* g x 1.2 x 1.1^k in the code's integer arithmetic.
escalated(g, k) == IF k = 0 THEN freshGas(g) ELSE bumpGas(escalated(g, k - 1))

\* C8: when the k failures of a job were generic ones and attempt k + 1
\* succeeds, its transaction is signed with gas price g x 1.2 x 1.1^k.
C8_GasCarriesOver ==
  \A p \in Procs :
    proc[p].pc = "notifySuccess" /\ proc[p].generic
      => proc[p].txGas = escalated(GasEstimate, proc[p].attempt - 1)

\* C9: when the k failures of a job were generic ones and attempt k + 1
\* succeeds, its transaction carries the nonce read at the start of the job
\* plus k.
C9_NonceAfterRetries ==
  \A p \in Procs :
    proc[p].pc = "notifySuccess" /\ proc[p].generic
      => proc[p].txNonce = Num(proc[p].nonce0) + (proc[p].attempt - 1)

\* C9 case: two generic failures, then success with the initial nonce + 2.
C9_Witness ==
  \E p \in Procs :
    /\ proc[p].pc = "notifySuccess" /\ proc[p].generic /\ proc[p].attempt = 3
    /\ proc[p].txNonce = Num(proc[p].nonce0) + 2

\* C10: after an "insufficient funds" error of the submission the run makes no
\* further attempt: it is at the notification, or it has returned false with
\* the failure counted and the lock of its asset false.
C10_InsufficientFundsTerminal ==
  \A p \in Procs :
    proc[p].fatal = "send" =>
      \/ proc[p].pc = "notifyInsufficient"
      \/ /\ proc[p].pc = "resume" /\ proc[p].exit = "insufficient"
         /\ proc[p].result = "false"
         /\ ~tokenProcessing[proc[p].tok]
         /\ metrics.failedTx >= 1 /\ metrics.consecutiveFailures >= 1

\* C10 case: the submission of the first attempt failed with "insufficient
\* funds" and the run has returned.
C10_Witness ==
  \E p \in Procs :
    /\ proc[p].fatal = "send" /\ proc[p].attempt = 1
    /\ proc[p].pc = "resume" /\ proc[p].result = "false"

\* C11: once the handler of a websocket 'close' has finished, if the closed
\* endpoint is recorded unreachable and some endpoint is reachable, then
\* currentIndex is not the closed endpoint and points at a reachable endpoint
\* of minimal latency.
C11_CloseReselects ==
  Selected /\ selected.closed # NULL
    /\ latencies[selected.closed] = Infinity
    /\ (\E j \in Providers : latencies[j] # Infinity)
  => /\ currentIndex # selected.closed
     /\ latencies[currentIndex] # Infinity
     /\ \A j \in Providers : latencies[currentIndex] <= latencies[j]

\* C11 case: the selected endpoint closed, measured unreachable, and the
\* handler has re-selected among the reachable ones.
C11_Witness ==
  /\ Selected /\ selected.closed # NULL /\ selected.wasCurrent
  /\ latencies[selected.closed] = Infinity
  /\ currentIndex # selected.closed
  /\ latencies[currentIndex] # Infinity

\* The job numbered id waits in the queue.
Queued(id) == \E k \in 1..Len(queue) : queue[k].id = id

\* The run of the job numbered id has been started.
Started(id) == id \in finished \/ \E p \in Procs : proc[p].id = id

\* C12: whatever the endpoints answered before, every job that waits in the
\* queue is eventually started by the drain loop.
C12_QueuedJobsStart ==
  \A id \in 1..MaxJobs : Queued(id) ~> Started(id)

\* C13: a job that exhausts its retry budget ends only itself: the run returns
\* false to the drain loop; the drain loop then starts the job at the head of
\* the queue, whatever its asset, or, the queue being empty, clears
\* txQueue.processing and ends; and with the flag cleared the next enqueue
\* starts the run of the job it adds.
C13_ExhaustedEndsOnlyJob ==
  [][ /\ \A p \in Procs :
           /\ proc[p].pc = "notifyExhausted" /\ proc'[p] # proc[p]
                => /\ proc'[p].pc = "resume"
                   /\ proc'[p].exit = "exhausted"
                   /\ proc'[p].result = "false"
                   /\ proc'[p].attempt = maxRetries
                   /\ processing' /\ queue' = queue
           /\ proc[p].pc = "resume" /\ proc[p].exit = "exhausted"
                /\ proc'[p] # proc[p]
                => IF Len(queue) > 0
                   THEN /\ proc'[p].id = Head(queue).id
                        /\ proc'[p].tok = Head(queue).tokenAddress
                        /\ proc'[p].pc \in {"balance", "resume"}
                        /\ queue' = Tail(queue)
                        /\ processing'
                   ELSE /\ proc'[p] = IdleProc
                        /\ ~processing'
      /\ ~processing /\ nextId' # nextId
           => \E p \in Procs : /\ proc[p].pc = "idle"
                               /\ proc'[p].id = nextId
                               /\ proc'[p].pc \in {"balance", "resume"}
                               /\ processing' ]_vars

\* C13 case: a run has returned false after maxRetries failed attempts while
\* another job waits in the queue.
C13_Witness ==
  \E p \in Procs : /\ proc[p].pc = "resume" /\ proc[p].exit = "exhausted"
                   /\ proc[p].result = "false"
                   /\ Len(queue) > 0 /\ processing

\* C14: when the pending count read after "nonce too low" arrives, the nonce
\* the run carries into its next attempt and txQueue.nonce both equal the
\* count read.
C14_ResyncUsesCount ==
  [][ \A p \in Procs :
        proc[p].pc = "resync" /\ proc'[p].pc = "delay"
          => /\ proc'[p].nonce = expectedNonce'
             /\ txNonce' = expectedNonce' ]_vars

\* C15: in every reachable state the lock of an asset is set while a run of
\* transferWithRetry for that asset is between taking the lock and its exit.
C15_LockHeldWhileRunning ==
  \A p \in Procs : proc[p].pc \in RunPcs => tokenProcessing[proc[p].tok]

\* C16: in every reachable state in which some recorded latency is finite,
\* also while a measurement round is writing its latencies one by one,
\* currentIndex points at an endpoint of minimal recorded latency.
C16_AlwaysMinLatency ==
  (\E i \in Providers : latencies[i] # Infinity)
    => latencies[currentIndex] = minLatency(latencies)

\* C17: when selectBestProvider runs with every recorded latency Infinity,
\* currentIndex keeps its value and 'providerChanged' is not emitted.
C17_AllUnavailableKeepsIndex ==
  [][ /\ \E rd \in Rounds : rounds[rd].pc = "measuring" /\ rounds'[rd].pc = "idle"
      /\ \A i \in Providers : latencies'[i] = Infinity
      => /\ currentIndex' = currentIndex
         /\ ~selected'.emitted ]_vars

\* C17 case: a selection has run with every endpoint unavailable while the
\* current endpoint is not the first one.
C17_Witness ==
  /\ Selected /\ ~selected.emitted
  /\ \A i \in Providers : latencies[i] = Infinity
  /\ currentIndex # 0

\* C18: txQueue.nonce changes only when a submission is confirmed, by exactly
\* +1, or when initNonce or a "nonce too low" resync sets it to the pending
\* count read from the chain.
C18_NonceChangesOnlyBy ==
  [][ txNonce' # txNonce
        => \E p \in Procs :
             \/ /\ proc[p].pc = "wait" /\ proc'[p].pc = "notifySuccess"
                /\ txNonce' = Num(txNonce) + 1
             \/ /\ proc[p].pc = "initNonce" /\ proc'[p].pc = "nonceReady"
                /\ txNonce' \in 0..MaxPending
             \/ /\ proc[p].pc = "resync" /\ proc'[p].pc = "delay"
                /\ txNonce' = expectedNonce' ]_vars

\* C19: a run makes at most maxRetries attempts, whatever errors its attempts
\* meet; a run that returned true did so within them, and a run that made
\* them all without success has returned false.
C19_BoundedAttempts ==
  \A p \in Procs :
    /\ proc[p].attempt \in 0..maxRetries
    /\ proc[p].exit = "success"
         => proc[p].attempt \in 1..maxRetries /\ proc[p].result = "true"
    /\ proc[p].exit = "exhausted"
         => proc[p].attempt = maxRetries /\ proc[p].result = "false"
    /\ proc[p].pc \in {"notifyAlert", "notifyExhausted"}
         => proc[p].attempt = maxRetries

\* C19 case: the loop has ended after maxRetries failed attempts that were not
\* all generic failures.
C19_Witness ==
  \E p \in Procs : /\ proc[p].pc = "notifyExhausted"
                   /\ proc[p].attempt = maxRetries
                   /\ ~proc[p].generic

\* C20: when the balance read of a run answers a balance <= 0, the run ends at
\* once: no attempt is made and no transaction built, txQueue.nonce and the
\* metrics keep their values, no notification is awaited, and the asset's lock
\* is false.
C20_ZeroBalanceNoAction ==
  [][ \A p \in Procs :
        proc[p].pc = "balance" /\ proc'[p].balance = "zero"
          => /\ proc'[p].pc = "resume"
             /\ proc'[p].exit = "zeroBalance"
             /\ proc'[p].attempt = 0
             /\ proc'[p].txNonce = NULL /\ proc'[p].txGas = NULL
             /\ txNonce' = txNonce
             /\ metrics' = metrics
             /\ ~tokenProcessing'[proc[p].tok] ]_vars

\* C20 case: a run has read a balance <= 0 and ended, a nonce being known and
\* a transaction having been counted before.
C20_Witness ==
  \E p \in Procs : /\ proc[p].pc = "resume" /\ proc[p].balance = "zero"
                   /\ ~tokenProcessing[proc[p].tok]
                   /\ txNonce # NULL
                   /\ metrics.totalTransactions > 0

\* C21: a step of resetProcessingLocks leaves every lock false and adds one to
\* the lock-reset metric when some lock was set, nothing when none was; the
\* metric changes on no other step, and the rest of the state is untouched.
C21_SweepClearsAndReports ==
  [][ /\ ResetProcessingLocks
           => /\ \A a \in Addrs : ~tokenProcessing'[a]
              /\ metrics'.processingLockResets = metrics.processingLockResets
                   + (IF \E a \in Addrs : tokenProcessing[a] THEN 1 ELSE 0)
              /\ (\A a \in Addrs : ~tokenProcessing[a]) => metrics' = metrics
      /\ metrics'.processingLockResets # metrics.processingLockResets
           => /\ \E a \in Addrs : tokenProcessing[a]
              /\ \A a \in Addrs : ~tokenProcessing'[a]
              /\ metrics' = [metrics EXCEPT !.processingLockResets = @ + 1]
              /\ UNCHANGED << queue, processing, txNonce, tokenContracts,
                              listeners, setupRuns, proc, nextId, finished >> ]_vars

\* C21 case: a sweep has found the lock of a running job set, cleared it and
\* counted one reset.
C21_Witness ==
  /\ metrics.processingLockResets = 1
  /\ \A a \in Addrs : ~tokenProcessing[a]
  /\ \E p \in Procs : proc[p].pc \in RunPcs

\* C22: reconnectAttempts[i] never exceeds maxReconnectAttempts; from the
\* maximum, a step either leaves the count at the maximum and schedules no
\* retry timer for i, or is a successful latency measurement of i, which
\* resets the count.
C22_ReconnectCapped ==
  [][ \A i \in Providers :
        /\ reconnectAttempts[i] <= maxReconnectAttempts
        /\ reconnectAttempts'[i] <= maxReconnectAttempts
        /\ reconnectAttempts[i] = maxReconnectAttempts
             => \/ /\ reconnectAttempts'[i] = maxReconnectAttempts
                   /\ timers'[i] <= timers[i]
                \/ /\ \E rd \in Rounds : /\ i \in rounds[rd].pending
                                         /\ i \notin rounds'[rd].pending
                   /\ latencies'[i] # Infinity
                   /\ reconnectAttempts'[i] <= 1 ]_vars

\* C22 case: endpoint i has failed maxReconnectAttempts reconnects and the
\* retry timer of the last failure has fired without scheduling another.
C22_Witness ==
  \E i \in Providers : /\ reconnectAttempts[i] = maxReconnectAttempts
                       /\ timers[i] = 0
                       /\ latencies[i] = Infinity

\* C23: in every reachable state txQueue.processing is true only while an
\* activation of the drain loop is running.
C23_ProcessingFlagAccurate ==
  processing => Running # {}

\* No setupContracts run is in flight.
SetupDone == \A s \in DOMAIN setupRuns : setupRuns[s] = SetupIdle

\* C24: whenever no setupContracts run is in flight, every asset has a
\* contract in tokenContracts and exactly one live 'Transfer' subscription.
C24_OneSubscription ==
  SetupDone => \A a \in Addrs : tokenContracts[a] /\ listeners[a] = 1

====
